---- MODULE Spec2Model ----
(***************************************************************************)
(* Model of the diagram layout core (auto-layout-dagre.ts, kept here as    *)
(* src/unnamed/part_000) and of the streaming hook that drives it          *)
(* (src/hooks/use-excalidraw-streaming.ts).                                *)
(*                                                                         *)
(* A CompactElement is a record                                            *)
(*   [i, t, l, ch, si, ei, x, y, w, h]                                     *)
(* An optional number is a sequence: <<>> is undefined, <<v>> is v.        *)
(* A label is a sequence of glyph classes "L" (Latin) and "C" (CJK).       *)
(* ch = <<>> stands for both a missing and an empty child list, and        *)
(* si/ei = "" for a missing id: the code treats the two alike everywhere.  *)
(***************************************************************************)
EXTENDS Integers, Sequences, FiniteSets, TLC

VARIABLES
    elements,   \* the element list handed to layoutWithDagre (mutated in place)
    before,     \* the list as it was when the most recent call started
    calls,      \* number of layoutWithDagre calls made on this list
    last,       \* what the most recent call did (path taken, graph built)
    lastProcessedJsonRef,  \* hook: toolCallId -> JSON recorded as processed
    debounceTimeoutRef,    \* hook: the pending timer with its closure, or none
    pendingElementsRef,    \* hook: <<>> (null) or <<elements>> awaiting commit
    lastElementCountRef,   \* hook: length of the last committed list
    canvas,     \* the argument of the last setExcalidrawElements, <<>> if none
    latest,     \* history: the last chunk that produced elements, <<>> if none
    fired,      \* history: the step just taken was the timer callback
    chunks,     \* history: number of effect runs so far
    timers,     \* runtime: the callbacks scheduled by setTimeout and not yet run
    committed,  \* history: setExcalidrawElements calls made by the step just taken
    layoutRuns, \* history: layoutWithStrategy calls since the pending timer was set
    doc,        \* parser: the text the model is producing, with its objects
    received,   \* parser: the part of it received so far
    parsed,     \* parser: the result of parsing received
    parsedBefore,  \* parser: the result of parsing the text before its last growth
    bindingService,  \* BindingService: its three maps and its set
    lastOp,     \* history: the deleteBinding just made, with the state before it
    page,       \* DocumentIdPage: one run of loadDocument and what it displays
    bindingCache  \* BindingCache: memory cache, IndexedDB store, calls in flight

layoutVars == <<elements, before, calls, last>>

streamVars == <<lastProcessedJsonRef, debounceTimeoutRef, pendingElementsRef,
                lastElementCountRef, canvas, latest, fired, chunks,
                timers, committed, layoutRuns>>

vars == <<elements, before, calls, last, lastProcessedJsonRef, debounceTimeoutRef,
          pendingElementsRef, lastElementCountRef, canvas, latest, fired, chunks,
          timers, committed, layoutRuns, doc, received, parsed, parsedBefore,
          bindingService, lastOp, page, bindingCache>>

parserVars == <<doc, received, parsed, parsedBefore>>

storeVars == <<bindingService, lastOp, page, bindingCache>>

----------------------------------------------------------------------------
(* Optional values and small helpers                                       *)

None == <<>>

Some(v) == <<v>>

\* the ?? operator
OrElse(o, d) == IF o = <<>> THEN d ELSE o[1]

IsDef(o) == o # <<>>

Max2(a, b) == IF a >= b THEN a ELSE b

Abs(a) == IF a < 0 THEN 0 - a ELSE a

SetMin(S) == CHOOSE m \in S : \A n \in S : m <= n

SetMax(S) == CHOOSE m \in S : \A n \in S : m >= n

Range(s) == {s[k] : k \in 1..Len(s)}

\* Array.prototype.sort with comparator key(a) - key(b): stable, ascending.
RECURSIVE InsertByKey(_, _, _)
InsertByKey(sorted, e, key) ==
    IF sorted = <<>> THEN <<e>>
    ELSE IF key[sorted[Len(sorted)]] <= key[e] THEN Append(sorted, e)
    ELSE Append(InsertByKey(SubSeq(sorted, 1, Len(sorted) - 1), e, key),
                sorted[Len(sorted)])

RECURSIVE StableSort(_, _)
StableSort(s, key) ==
    IF s = <<>> THEN <<>>
    ELSE InsertByKey(StableSort(SubSeq(s, 1, Len(s) - 1), key), s[Len(s)], key)

----------------------------------------------------------------------------
(* Program constants                                                       *)

MIN_WIDTH == 100

LATIN_WIDTH == 10

CJK_WIDTH == 18

INTERNAL_PADDING == 24

EMPTY_HEIGHT == 50

MIN_AVAILABLE == 50

LINE_HEIGHT == 32

VERTICAL_PADDING == 30

VERTICAL_PADDING_CJK == 35

GAP == 40

ALIGN_THRESHOLD == 150

MIN_REFLOW_CHILDREN == 4

ROW_THRESHOLD == 100

GAP_X == 60

GAP_Y == 60

PADDING == 50

TITLE_OFFSET == 30

DEFAULT_W == 120

DEFAULT_H == 60

DEFAULT_CONFIG == [rankdir |-> "TB", ranksep |-> 120, nodesep |-> 60,
                   marginx |-> 50, marginy |-> 50]

\* TYPE_MAP[t] || t
TYPE_MAP(t) ==
    CASE t = "r" -> "rectangle"
      [] t = "el" -> "ellipse"
      [] t = "d" -> "diamond"
      [] t = "a" -> "arrow"
      [] t = "tx" -> "text"
      [] t = "ln" -> "line"
      [] t = "fr" -> "frame"
      [] OTHER -> t

----------------------------------------------------------------------------
(* Sizing                                                                  *)

RECURSIVE TextPixels(_)
TextPixels(text) ==
    IF text = <<>> THEN 0
    ELSE (IF Head(text) = "C" THEN CJK_WIDTH ELSE LATIN_WIDTH) + TextPixels(Tail(text))

\* the estimate without the room for the internal padding
calculateTextWidthNoPadding(text) ==
    IF text = <<>> THEN MIN_WIDTH
    ELSE Max2(MIN_WIDTH, TextPixels(text))

\* the estimate without the minimum width
calculateTextWidthNoFloor(text) ==
    IF text = <<>> THEN MIN_WIDTH
    ELSE TextPixels(text) + INTERNAL_PADDING

calculateTextWidth(text) ==
    IF text = <<>> THEN MIN_WIDTH
    ELSE Max2(MIN_WIDTH, TextPixels(text) + INTERNAL_PADDING)

calculateNodeHeight(text, containerWidth) ==
    IF text = <<>> THEN EMPTY_HEIGHT
    ELSE LET availableWidth == Max2(MIN_AVAILABLE, containerWidth - INTERNAL_PADDING)
             textWidth == TextPixels(text)
             hasCJK == \E k \in 1..Len(text) : text[k] = "C"
             \* Math.ceil(textWidth / availableWidth)
             lineCount == Max2(1, (textWidth + availableWidth - 1) \div availableWidth)
         IN (IF hasCJK THEN VERTICAL_PADDING_CJK ELSE VERTICAL_PADDING)
            + lineCount * LINE_HEIGHT

\* el.w || calculateTextWidth(el.l || '')
NodeWidth(el) ==
    IF OrElse(el.w, 0) # 0 THEN el.w[1] ELSE calculateTextWidth(el.l)

\* el.h || calculateNodeHeight(el.l || '', width)
NodeHeight(el) ==
    IF OrElse(el.h, 0) # 0 THEN el.h[1] ELSE calculateNodeHeight(el.l, NodeWidth(el))

----------------------------------------------------------------------------
(* Indexing                                                                *)

\* elementsById.get(id): position of the element in the list, 0 when the id
\* is unknown (a later element with the same id overwrites an earlier one).
IndexOf(els, id) ==
    IF \E k \in 1..Len(els) : els[k].i = id
    THEN SetMax({k \in 1..Len(els) : els[k].i = id})
    ELSE 0

\* childToParent.has(id)
HasParent(els, id) ==
    \E k \in 1..Len(els) : id \in Range(els[k].ch)

\* Array.prototype.filter: the positions in S, in list order
RECURSIVE FilterIdx(_, _)
FilterIdx(S, k) ==
    IF \A n \in S : n < k THEN <<>>
    ELSE (IF k \in S THEN <<k>> ELSE <<>>) \o FilterIdx(S, k + 1)

IsArrow(el) == TYPE_MAP(el.t) = "arrow"

IsFrame(el) == TYPE_MAP(el.t) = "frame"

IsGraphNode(el) == ~IsArrow(el) /\ ~IsFrame(el)

----------------------------------------------------------------------------
(* Graph construction (dagre graph g)                                      *)

\* ids on which g.setNode was called, as list positions in insertion order
GraphNodes(els) == FilterIdx({k \in 1..Len(els) : IsGraphNode(els[k])}, 1)

\* g.hasNode(id)
HasNode(els, id) == \E k \in 1..Len(els) : els[k].i = id /\ IsGraphNode(els[k])

\* ArrowEdges without the check that the end is a graph node
ArrowEdgesUnchecked(els) ==
    {<<els[k].si, els[k].ei>> : k \in {j \in 1..Len(els) :
        /\ IsArrow(els[j])
        /\ els[j].si # "" /\ els[j].ei # ""
        /\ HasNode(els, els[j].si)}}

\* edges set from arrows: both ends given and both graph nodes
ArrowEdges(els) ==
    {<<els[k].si, els[k].ei>> : k \in {j \in 1..Len(els) :
        /\ IsArrow(els[j])
        /\ els[j].si # "" /\ els[j].ei # ""
        /\ HasNode(els, els[j].si) /\ HasNode(els, els[j].ei)}}

IsRoot(els, el) == ~HasParent(els, el.i) /\ ~IsArrow(el)

\* edges inferred whenever no arrow resolved to an edge
InferredEdgesUnresolved(els) ==
    IF ArrowEdges(els) # {} THEN {}
    ELSE LET rootElements == FilterIdx({k \in 1..Len(els) : IsRoot(els, els[k])}, 1)
         IN {<<els[rootElements[n]].i, els[rootElements[n + 1]].i>> :
                n \in {m \in 1..(Len(rootElements) - 1) :
                    /\ ~IsFrame(els[rootElements[m]])
                    /\ ~IsFrame(els[rootElements[m + 1]])
                    /\ HasNode(els, els[rootElements[m]].i)
                    /\ HasNode(els, els[rootElements[m + 1]].i)}}

\* edges inferred from element order, only when the list holds no arrow
InferredEdges(els) ==
    IF \E k \in 1..Len(els) : IsArrow(els[k]) THEN {}
    ELSE LET rootElements == FilterIdx({k \in 1..Len(els) : IsRoot(els, els[k])}, 1)
         IN {<<els[rootElements[n]].i, els[rootElements[n + 1]].i>> :
                n \in {m \in 1..(Len(rootElements) - 1) :
                    /\ ~IsFrame(els[rootElements[m]])
                    /\ ~IsFrame(els[rootElements[m + 1]])
                    /\ HasNode(els, els[rootElements[m]].i)
                    /\ HasNode(els, els[rootElements[m + 1]].i)}}

GraphEdges(els) == ArrowEdges(els) \cup InferredEdges(els)

----------------------------------------------------------------------------
(* dagre.layout(g): layered placement, rankdir TB.  A node's rank is its   *)
(* depth in the directed graph; the nodes of a rank stand side by side in  *)
(* insertion order, nodesep apart, starting at marginx; ranks are stacked  *)
(* ranksep apart starting at marginy, each node centred on its rank's      *)
(* axis.  The result is given as the top-left corner the caller derives    *)
(* from dagre's centre coordinates.                                        *)

RECURSIVE DagreRank(_, _, _, _)
DagreRank(els, edges, v, fuel) ==
    LET preds == {u \in Range(GraphNodes(els)) :
                    u # v /\ <<els[u].i, els[v].i>> \in edges}
    IN IF fuel = 0 \/ preds = {} THEN 0
       ELSE 1 + SetMax({DagreRank(els, edges, u, fuel - 1) : u \in preds})

\* rank of every graph node
DagreRanks(els, edges) ==
    LET nodes == GraphNodes(els)
    IN [v \in Range(nodes) |-> DagreRank(els, edges, v, Len(nodes))]

\* height of rank r: that of its tallest node
DagreRowHeight(els, rank, r) ==
    LET row == {v \in DOMAIN rank : rank[v] = r}
    IN IF row = {} THEN 0 ELSE SetMax({NodeHeight(els[v]) : v \in row})

\* top edge of rank r
RECURSIVE DagreRowTop(_, _, _, _)
DagreRowTop(els, rank, r, cfg) ==
    IF r = 0 THEN cfg.marginy
    ELSE DagreRowTop(els, rank, r - 1, cfg) + DagreRowHeight(els, rank, r - 1) + cfg.ranksep

\* width taken by the nodes S of a rank, each followed by nodesep
RECURSIVE DagreRowWidth(_, _, _)
DagreRowWidth(els, S, cfg) ==
    IF S = {} THEN 0
    ELSE LET u == CHOOSE u \in S : TRUE
         IN NodeWidth(els[u]) + cfg.nodesep + DagreRowWidth(els, S \ {u}, cfg)

DagreLayout(els, edges, cfg) ==
    LET rank == DagreRanks(els, edges)
    IN [v \in DOMAIN rank |->
          [x |-> cfg.marginx
                 + DagreRowWidth(els, {u \in DOMAIN rank : rank[u] = rank[v] /\ u < v}, cfg),
           \* Math.round(node.y - node.height / 2), node.y the rank's axis
           y |-> DagreRowTop(els, rank, rank[v], cfg)
                 + ((DagreRowHeight(els, rank, rank[v]) - NodeHeight(els[v]) + 1) \div 2),
           width |-> NodeWidth(els[v]),
           height |-> NodeHeight(els[v])]]

\* ApplyPositions that writes the corner but not the size
ApplyPositionsNoSize(els, pos) ==
    [k \in 1..Len(els) |->
        IF IsGraphNode(els[k]) /\ k \in DOMAIN pos
        THEN [els[k] EXCEPT !.x = Some(pos[k].x), !.y = Some(pos[k].y)]
        ELSE els[k]]

\* Apply calculated positions to elements
ApplyPositions(els, pos) ==
    [k \in 1..Len(els) |->
        IF IsGraphNode(els[k]) /\ k \in DOMAIN pos
        THEN [els[k] EXCEPT !.x = Some(pos[k].x), !.y = Some(pos[k].y),
                            !.w = Some(pos[k].width), !.h = Some(pos[k].height)]
        ELSE els[k]]

----------------------------------------------------------------------------
(* Shifting.  A layout state st is [els, ok]: the list, and whether the    *)
(* try block is still running (ok = FALSE once an exception was thrown).   *)

\* Depth of nested calls at which the engine raises RangeError (call-stack
\* exhaustion); every well-formed containment is far shallower.
StackDepth == 6

\* the shift of an element that leaves its children where they are
ShiftElementOnly(st, k, dx, dy, depth) ==
    IF ~st.ok THEN st
    ELSE [st EXCEPT !.els[k].x = Some(OrElse(st.els[k].x, 0) + dx),
                    !.els[k].y = Some(OrElse(st.els[k].y, 0) + dy)]

RECURSIVE shiftElementAndDescendants(_, _, _, _, _)
RECURSIVE ShiftChildren(_, _, _, _, _, _)
shiftElementAndDescendants(st, k, dx, dy, depth) ==
    IF ~st.ok THEN st
    ELSE IF depth > StackDepth THEN [st EXCEPT !.ok = FALSE]
    ELSE LET el == st.els[k]
             moved == [st EXCEPT !.els[k].x = Some(OrElse(el.x, 0) + dx),
                                 !.els[k].y = Some(OrElse(el.y, 0) + dy)]
         IN ShiftChildren(moved, el.ch, 1, dx, dy, depth)

ShiftChildren(st, ch, n, dx, dy, depth) ==
    IF ~st.ok \/ n > Len(ch) THEN st
    ELSE LET child == IndexOf(st.els, ch[n])
             next == IF child = 0 THEN st
                     ELSE shiftElementAndDescendants(st, child, dx, dy, depth + 1)
         IN ShiftChildren(next, ch, n + 1, dx, dy, depth)

----------------------------------------------------------------------------
(* resolveFrameOverlaps                                                    *)

\* Step 1: walk the sorted siblings, shifting right what is too close
RECURSIVE ResolveHorizontal(_, _, _)
ResolveHorizontal(st, sorted, n) ==
    IF ~st.ok \/ n > Len(sorted) THEN st
    ELSE LET prev == st.els[sorted[n - 1]]
             curr == st.els[sorted[n]]
             prevRight == OrElse(prev.x, 0) + OrElse(prev.w, 0)
             currLeft == OrElse(curr.x, 0)
             next == IF currLeft < prevRight + GAP
                     THEN shiftElementAndDescendants(st, sorted[n],
                                                     prevRight + GAP - currLeft, 0, 1)
                     ELSE st
         IN ResolveHorizontal(next, sorted, n + 1)

\* a difference of exactly the threshold taken for the same rank
RoughlySameRankInclusive(dy) == Abs(dy) <= ALIGN_THRESHOLD

\* Only align if the vertical difference is small enough (likely same rank)
RoughlySameRank(dy) == Abs(dy) < ALIGN_THRESHOLD

\* Step 2: align the tops of the siblings that are on the same visual rank
RECURSIVE AlignTops(_, _, _, _)
AlignTops(st, sorted, n, minY) ==
    IF ~st.ok \/ n > Len(sorted) THEN st
    ELSE LET currentY == OrElse(st.els[sorted[n]].y, 0)
             dy == minY - currentY
             next == IF currentY > minY /\ RoughlySameRank(dy)
                     THEN shiftElementAndDescendants(st, sorted[n], 0, dy, 1)
                     ELSE st
         IN AlignTops(next, sorted, n + 1, minY)

\* Step 2 from the state Step 1 left
AlignSorted(st, sorted) ==
    IF ~st.ok THEN st
    ELSE AlignTops(st, sorted, 1, SetMin({OrElse(st.els[k].y, 0) : k \in Range(sorted)}))

ResolveSorted(st, sorted) == AlignSorted(ResolveHorizontal(st, sorted, 2), sorted)

resolveFrameOverlaps(st, siblingFrames) ==
    IF ~st.ok \/ Len(siblingFrames) < 2 THEN st
    ELSE ResolveSorted(st, StableSort(siblingFrames,
            [k \in Range(siblingFrames) |-> OrElse(st.els[k].x, 0)]))

----------------------------------------------------------------------------
(* reflowFrameChildren / reflowToGrid                                      *)

\* Math.ceil(Math.sqrt(n) * 1.5): the least c with c >= 1.5 * sqrt(n)
TargetCols(n) == SetMin({c \in 1..(2 * n) : 4 * c * c >= 9 * n})

\* first pass of reflowToGrid: positions relative to (0, 0)
RECURSIVE GridPositions(_, _, _, _, _, _, _, _)
GridPositions(els, sorted, n, currentX, currentY, rowHeight, colIndex, columns) ==
    IF n > Len(sorted) THEN <<>>
    ELSE LET child == els[sorted[n]]
             rh == Max2(rowHeight, OrElse(child.h, 0))
             wrap == colIndex + 1 >= columns
         IN <<[id |-> child.i, x |-> currentX, y |-> currentY]>> \o
            GridPositions(els, sorted, n + 1,
                          IF wrap THEN 0 ELSE currentX + OrElse(child.w, 0) + GAP_X,
                          IF wrap THEN currentY + rh + GAP_Y ELSE currentY,
                          IF wrap THEN 0 ELSE rh,
                          IF wrap THEN 0 ELSE colIndex + 1,
                          columns)

\* second pass of reflowToGrid: apply the new positions
RECURSIVE ApplyGrid(_, _, _, _, _)
ApplyGrid(st, newPositions, n, startX, startY) ==
    IF ~st.ok \/ n > Len(newPositions) THEN st
    ELSE LET pos == newPositions[n]
             k == IndexOf(st.els, pos.id)
             newAbsX == startX + pos.x
             newAbsY == startY + pos.y
             next ==
                IF k = 0 THEN st
                ELSE IF st.els[k].t # "f"
                THEN [st EXCEPT !.els[k].x = Some(newAbsX), !.els[k].y = Some(newAbsY)]
                ELSE shiftElementAndDescendants(st, k,
                        newAbsX - OrElse(st.els[k].x, 0),
                        newAbsY - OrElse(st.els[k].y, 0), 1)
         IN ApplyGrid(next, newPositions, n + 1, startX, startY)

\* reflowToGrid after the sort
GridSorted(st, sorted, columns) ==
    ApplyGrid(st, GridPositions(st.els, sorted, 1, 0, 0, 0, 0, columns), 1,
              OrElse(st.els[sorted[1]].x, 0), OrElse(st.els[sorted[1]].y, 0))

reflowToGrid(st, children, columns) ==
    GridSorted(st, StableSort(children,
                    [k \in Range(children) |-> OrElse(st.els[k].x, 0)]), columns)

\* the elements reflowFrameChildren takes for frames
IsReflowFrame(el) == el.t = "f"

\* children of a frame that reflow considers: known ids, arrows skipped
RECURSIVE ReflowChildren(_, _, _)
ReflowChildren(els, ch, n) ==
    IF n > Len(ch) THEN <<>>
    ELSE LET k == IndexOf(els, ch[n])
         IN (IF k # 0 /\ els[k].t # "a" THEN <<k>> ELSE <<>>)
            \o ReflowChildren(els, ch, n + 1)

\* the body of the loop over frames, for one frame and its children
ReflowOne(st, frame, children) ==
    IF Len(frame.ch) < MIN_REFLOW_CHILDREN THEN st
    ELSE IF Len(children) = 0 THEN st
    ELSE IF /\ \A m \in 1..Len(children) :
                 Abs(OrElse(st.els[children[m]].y, 0)
                     - OrElse(st.els[children[1]].y, 0)) < ROW_THRESHOLD
            /\ Len(children) > 3
    THEN reflowToGrid(st, children, TargetCols(Len(children)))
    ELSE st

RECURSIVE ReflowEach(_, _, _)
ReflowEach(st, frames, n) ==
    IF ~st.ok \/ n > Len(frames) THEN st
    ELSE ReflowEach(ReflowOne(st, st.els[frames[n]],
                              ReflowChildren(st.els, st.els[frames[n]].ch, 1)),
                    frames, n + 1)

reflowFrameChildren(st) ==
    ReflowEach(st, FilterIdx({k \in 1..Len(st.els) : IsReflowFrame(st.els[k])}, 1), 1)

----------------------------------------------------------------------------
(* Frame bounding                                                          *)

\* the frames the bounding passes handle: type frame with a non-empty ch
IsBoundedFrame(el) == IsFrame(el) /\ Len(el.ch) > 0

\* getFrameDepth: how many parent frames a frame has; a revisit counts 0
RECURSIVE getFrameDepth(_, _, _, _)
getFrameDepth(els, frames, frameId, visited) ==
    IF frameId \in visited THEN 0
    ELSE LET holders == {n \in 1..Len(frames) : frameId \in Range(els[frames[n]].ch)}
         IN IF holders = {} THEN 0
            ELSE 1 + getFrameDepth(els, frames, els[frames[SetMin(holders)]].i,
                                   visited \cup {frameId})

\* frames.sort((a, b) => getFrameDepth(b.i) - getFrameDepth(a.i)): deepest first
SortedFrames(els) ==
    LET frames == FilterIdx({k \in 1..Len(els) : IsBoundedFrame(els[k])}, 1)
    IN StableSort(frames,
         [k \in Range(frames) |-> 0 - getFrameDepth(els, frames, els[k].i, {})])

\* collectDescendants(el.ch): known children that are not arrows
RECURSIVE collectDescendants(_, _, _)
collectDescendants(els, ids, n) ==
    IF n > Len(ids) THEN <<>>
    ELSE LET k == IndexOf(els, ids[n])
         IN (IF k # 0 /\ ~IsArrow(els[k]) THEN <<k>> ELSE <<>>)
            \o collectDescendants(els, ids, n + 1)

\* the box written to one frame
BoxAround(els, D) ==
    LET minX == SetMin({OrElse(els[c].x, 0) : c \in D}) - PADDING
        maxX == SetMax({OrElse(els[c].x, 0) + OrElse(els[c].w, DEFAULT_W) : c \in D}) + PADDING
        minY == SetMin({OrElse(els[c].y, 0) : c \in D}) - PADDING - TITLE_OFFSET
        maxY == SetMax({OrElse(els[c].y, 0) + OrElse(els[c].h, DEFAULT_H) : c \in D}) + PADDING
    IN [x |-> minX, y |-> minY, w |-> maxX - minX, h |-> maxY - minY]

FrameBox(els, k) == BoxAround(els, Range(collectDescendants(els, els[k].ch, 1)))

\* el.x = minX; el.y = minY; el.w = maxX - minX; el.h = maxY - minY
SetBox(st, k, box) ==
    [st EXCEPT !.els[k].x = Some(box.x), !.els[k].y = Some(box.y),
               !.els[k].w = Some(box.w), !.els[k].h = Some(box.h)]

\* one bounding pass over the frames, in the given order
RECURSIVE BoundFrames(_, _, _)
BoundFrames(st, frames, n) ==
    IF ~st.ok \/ n > Len(frames) THEN st
    ELSE LET k == frames[n]
             next ==
                IF collectDescendants(st.els, st.els[k].ch, 1) = <<>> THEN st
                ELSE SetBox(st, k, FrameBox(st.els, k))
         IN BoundFrames(next, frames, n + 1)

\* child frames of a parent frame, in ch order
RECURSIVE ChildFrames(_, _, _)
ChildFrames(els, ch, n) ==
    IF n > Len(ch) THEN <<>>
    ELSE LET k == IndexOf(els, ch[n])
         IN (IF k # 0 /\ IsFrame(els[k]) THEN <<k>> ELSE <<>>)
            \o ChildFrames(els, ch, n + 1)

\* resolve overlaps within each parent frame
RECURSIVE ResolveWithinParents(_, _, _)
ResolveWithinParents(st, frames, n) ==
    IF ~st.ok \/ n > Len(frames) THEN st
    ELSE LET childFrames == ChildFrames(st.els, st.els[frames[n]].ch, 1)
             next == IF Len(childFrames) > 1
                     THEN resolveFrameOverlaps(st, childFrames)
                     ELSE st
         IN ResolveWithinParents(next, frames, n + 1)

\* top-level frames first, then the child frames of every frame
ResolveAllOverlaps(st, frames) ==
    LET tops == {n \in 1..Len(frames) : ~HasParent(st.els, st.els[frames[n]].i)}
        topLevelFrames == [n \in 1..Cardinality(tops) |-> frames[FilterIdx(tops, 1)[n]]]
    IN ResolveWithinParents(resolveFrameOverlaps(st, topLevelFrames), frames, 1)

----------------------------------------------------------------------------
(* layoutWithDagre                                                         *)

\* Quick check: most elements have coordinates
SkipLayout(els) ==
    LET elementsWithCoords == {k \in 1..Len(els) :
            IsDef(els[k].x) /\ IsDef(els[k].y) /\ els[k].t # "a"}
        nonArrowElements == {k \in 1..Len(els) : els[k].t # "a"}
    IN /\ Cardinality(nonArrowElements) > 0
       /\ 2 * Cardinality(elementsWithCoords) > Cardinality(nonArrowElements)

\* Passes without the bounding pass that follows overlap resolution
PassesNoRebound(st, frames) ==
    ResolveAllOverlaps(
        BoundFrames(reflowFrameChildren(BoundFrames(st, frames, 1)), frames, 1),
        frames)

\* bound, reflow, bound, resolve overlaps, bound
Passes(st, frames) ==
    BoundFrames(
        ResolveAllOverlaps(
            BoundFrames(reflowFrameChildren(BoundFrames(st, frames, 1)), frames, 1),
            frames),
        frames, 1)

\* the frame passes of the try block, over frames sorted deepest first
FramePasses(els) == Passes([els |-> els, ok |-> TRUE], SortedFrames(els))

\* a catch clause that rethrows what it does not recognise
CatchRethrows(st) == [propagated |-> TRUE]

\* the catch clause: the error is classified by its message and dropped
CatchError(st) == [propagated |-> FALSE]

\* the empty-graph check left out
NoNodesNever(els) == FALSE

\* nodeCount === 0: nothing to lay out
NoNodes(els) == Len(GraphNodes(els)) = 0

\* Result: elements is the returned list; path tells which return was taken;
\* edges and ranked tell what was built and whether dagre.layout ran.
Result(els, path, edges, ranked, propagated) ==
    [elements |-> els, path |-> path, edges |-> edges, ranked |-> ranked,
     propagated |-> propagated]

\* the end of the try block, or the catch clause, then return elements
Finish(fin, edges) ==
    IF fin.ok THEN Result(fin.els, "complete", edges, TRUE, FALSE)
    ELSE Result(fin.els, "caught", edges, TRUE, CatchError(fin).propagated)

\* the try block once the graph is known to have nodes
LayoutGraph(els, edges) ==
    Finish(FramePasses(ApplyPositions(els, DagreLayout(els, edges, DEFAULT_CONFIG))), edges)

layoutWithDagre(els) ==
    IF SkipLayout(els) THEN Result(els, "skip", {}, FALSE, FALSE)
    ELSE IF NoNodes(els) THEN Result(els, "nonodes", GraphEdges(els), FALSE, FALSE)
    ELSE LayoutGraph(els, GraphEdges(els))

----------------------------------------------------------------------------
(* Inputs.  Every list has unique ids; children appear only on frames (and *)
(* on the "f" elements of the wide family) and containment is a forest.    *)

MaxShapes == 3

MaxRow == 6

MaxCalls == 2

El(i, t, l, ch, si, ei) ==
    [i |-> i, t |-> t, l |-> l, ch |-> ch, si |-> si, ei |-> ei,
     x |-> None, y |-> None, w |-> None, h |-> None]

\* explicit geometry as a pre-positioned input carries it
WithGeometry(el, pre, n) ==
    CASE pre = "xy" -> [el EXCEPT !.x = Some(300 * n), !.y = Some(40)]
      [] pre = "xywh" -> [el EXCEPT !.x = Some(300 * n), !.y = Some(40),
                                    !.w = Some(90), !.h = Some(110)]
      [] OTHER -> el

Labels == << <<"L", "L", "L">>, <<>>, <<"C", "L", "L", "L", "L", "L", "L", "L", "L">> >>

LabelOf(n) == Labels[((n - 1) % Len(Labels)) + 1]

ShapeId(n) == "r" \o ToString(n)

Shape(n, pre) == WithGeometry(El(ShapeId(n), "r", LabelOf(n), <<>>, "", ""), pre, n)

Connector(i, t, si, ei, pre) == WithGeometry(El(i, t, <<>>, <<>>, si, ei), pre, 0)

\* one connector: short or long type code, resolved or dangling, with or
\* without coordinates; or two connectors in a chain
ConnectorLists ==
    {<<>>}
    \cup {<<Connector("c1", t, e[1], e[2], pre)>> :
            t \in {"a", "arrow"},
            e \in {<<"r1", "r2">>, <<"r2", "r3">>, <<"r1", "ghost">>},
            pre \in {"none", "xy"}}
    \cup {<<Connector("c1", "a", "r1", "r2", "none"), Connector("c2", "a", e[1], e[2], "none")>> :
            e \in {<<"r2", "r3">>, <<"r2", "ghost">>, <<"ghost", "r3">>, <<"r1", "r3">>}}

\* shapes and connectors, no frames
FlatInputs ==
    {[k \in 1..n |-> Shape(k, pre[k])] \o cs :
        n \in 0..MaxShapes, pre \in [1..MaxShapes -> {"none", "xy", "xywh"}],
        cs \in ConnectorLists}

MaxFill == 3

Frame(i, ch) == El(i, "fr", <<"L">>, ch, "", "")

\* the ids of a list of <<id, parent>> pairs whose parent is p, in list order
RECURSIVE ChildrenOf(_, _)
ChildrenOf(pairs, p) ==
    IF pairs = <<>> THEN <<>>
    ELSE (IF Head(pairs)[2] = p THEN <<Head(pairs)[1]>> ELSE <<>>)
         \o ChildrenOf(Tail(pairs), p)

\* the elements of a nested input: "-" leaves an element out, "top" puts it
\* at top level, a frame id puts it into that frame's ch
RECURSIVE Present(_, _)
Present(pairs, els) ==
    IF pairs = <<>> THEN <<>>
    ELSE (IF Head(pairs)[2] = "-" THEN <<>> ELSE <<Head(els)>>)
         \o Present(Tail(pairs), Tail(els))

NestedInput(pA1, pA2, p1, p2, p3, conn, fill) ==
    LET pairs == << <<"A", "top">>, <<"B", "top">>, <<"A1", pA1>>, <<"A2", pA2>>,
                    <<"r1", p1>>, <<"r2", p2>>, <<"r3", p3>> >>
        all == << Frame("A", ChildrenOf(pairs, "A")), Frame("B", ChildrenOf(pairs, "B")),
                  Frame("A1", ChildrenOf(pairs, "A1")), Frame("A2", ChildrenOf(pairs, "A2")),
                  Shape(1, "none"), Shape(2, "none"), Shape(3, "none") >>
    IN Present(pairs, all)
       \o (IF conn THEN <<Connector("c1", "a", "r1", "r2", "none")>> ELSE <<>>)
       \o [k \in 1..fill |-> Frame("E" \o ToString(k), <<>>)]

\* two top-level frames, up to two nested frames, up to three shapes, an
\* optional connector, and empty frames that never receive geometry
NestedInputs ==
    LET Choices == [pA1 : {"-", "top", "A"}, pA2 : {"-", "top", "A", "B"},
                    p1 : {"-", "top", "A", "B", "A1"}, p2 : {"-", "A", "B", "A2"},
                    p3 : {"-", "top", "B", "A2"},
                    conn : BOOLEAN, fill : {0, MaxFill}]
        \* no element is put into a frame that is left out
        Valid(c) == /\ (c.p1 = "A1" => c.pA1 # "-")
                    /\ (c.p2 = "A2" => c.pA2 # "-")
                    /\ (c.p3 = "A2" => c.pA2 # "-")
    IN {NestedInput(c.pA1, c.pA2, c.p1, c.p2, c.p3, c.conn, c.fill) :
            c \in {d \in Choices : Valid(d)}}

\* one container with a row of children; the container's type code is the
\* wire code for a frame, or the code reflowFrameChildren looks for
WideInputs ==
    {<<El("W", t, <<"L">>, [k \in 1..n |-> ShapeId(k)], "", "")>>
        \o [k \in 1..n |-> Shape(k, "none")] :
        t \in {"fr", "frame", "f"}, n \in 3..MaxRow}

\* the same with one label for all children, so that they get one height
EvenWideInputs ==
    {<<El("W", t, <<"L">>, [k \in 1..n |-> ShapeId(k)], "", "")>>
        \o [k \in 1..n |-> El(ShapeId(k), "r", Labels[1], <<>>, "", "")] :
        t \in {"fr", "frame", "f"}, n \in 3..MaxRow}

Inputs == FlatInputs \cup NestedInputs \cup WideInputs \cup EvenWideInputs

\* two top-level frames, up to three shapes, and a connector that one of the
\* frames lists among its children
MemberInput(p1, p2, p3, pc, t, e, pre) ==
    << Frame("A", ChildrenOf(<< <<"r1", p1>>, <<"r2", p2>>, <<"r3", p3>>, <<"c1", pc>> >>, "A")),
       Frame("B", ChildrenOf(<< <<"r1", p1>>, <<"r2", p2>>, <<"r3", p3>>, <<"c1", pc>> >>, "B")) >>
    \o Present(<< <<"r1", p1>>, <<"r2", p2>>, <<"r3", p3>> >>,
               << Shape(1, "none"), Shape(2, "none"), Shape(3, "none") >>)
    \o << Connector("c1", t, "r1", e, pre) >>

MemberInputs ==
    {MemberInput(p1, p2, p3, pc, t, e, pre) :
        p1 \in {"A", "top"}, p2 \in {"A", "B"}, p3 \in {"-", "B", "top"},
        pc \in {"A", "B"}, t \in {"a", "arrow"}, e \in {"r2", "ghost"},
        pre \in {"none", "xy"}}

\* one container with a row of children and a connector among them
WideMemberInputs ==
    {<<El("W", t, <<"L">>, [k \in 1..n |-> ShapeId(k)] \o <<"c1">>, "", "")>>
        \o [k \in 1..n |-> Shape(k, "none")]
        \o <<Connector("c1", "a", "r1", "r2", "none")>> :
        t \in {"fr", "frame", "f"}, n \in 3..MaxRow}

\* lists whose child lists are not a forest: a frame listing itself, two
\* frames listing each other, a frame listed by two frames
CyclicInputs ==
    {<<Frame("A", chA), Frame("B", chB), Frame("X", chX), Frame("Y", chY),
       Shape(1, "none"), Shape(2, "none")>> :
        chA \in {<<"r1">>, <<"A", "r1">>, <<"X", "r1">>},
        chB \in {<<"r2">>, <<"B", "r2">>, <<"X">>, <<"Y", "r2">>},
        chX \in {<<"Y">>, <<"X">>, <<"Y", "r2">>},
        chY \in {<<>>, <<"X">>, <<"Y", "r1">>}}

----------------------------------------------------------------------------
(* The layout state machine: layoutWithDagre is applied to a list, and     *)
(* again to its own output.                                                *)

NoCall == [path |-> "none", edges |-> {}, ranked |-> FALSE, propagated |-> FALSE]

LayoutInit(inputs) ==
    /\ elements \in inputs
    /\ before = elements
    /\ calls = 0
    /\ last = NoCall

\* the caller receives the list; the rest of the result is kept as history
Returned(R) ==
    /\ elements' = R.elements
    /\ last' = [path |-> R.path, edges |-> R.edges, ranked |-> R.ranked,
                propagated |-> R.propagated]

Layout ==
    /\ calls < MaxCalls
    /\ Returned(layoutWithDagre(elements))
    /\ before' = elements
    /\ calls' = calls + 1
    /\ UNCHANGED streamVars
    /\ UNCHANGED parserVars
    /\ UNCHANGED storeVars

----------------------------------------------------------------------------
(* resolveFrameOverlaps applied to sibling frames: top-level frames with   *)
(* boxes too close, apart, level, or on different ranks, one of them       *)
(* holding a nested frame, each holding a shape; a frame may lack a box.   *)

MaxSiblings == 3

Boxed(el, x, y, w, h) ==
    [el EXCEPT !.x = Some(x), !.y = Some(y), !.w = Some(w), !.h = Some(h)]

\* where a sibling frame is: a corner and a width (the wide ones and the far
\* right ones on the top level only), or no box at all
Boxes ==
    {b \in [x : {0, 100, 300}, y : {0, 100, 150}, w : {60, 260}, boxed : {TRUE}] :
        /\ (b.w = 260) => (b.x # 300 /\ b.y = 0)
        /\ (b.x = 300) => (b.y = 0)}
        \cup {[x |-> 0, y |-> 0, w |-> 0, boxed |-> FALSE]}

\* an element placed inside a frame's box, or left without a box like it
Inside(el, b, dx, dy, w, h) ==
    IF b.boxed THEN Boxed(el, b.x + dx, b.y + dy, w, h) ELSE el

SiblingId(k) == "F" \o ToString(k)

SiblingFrame(k, b) ==
    Inside(Frame(SiblingId(k),
                 IF k = 1 THEN <<"N", "s1">> ELSE <<"s" \o ToString(k)>>),
           b, 0, 0, b.w, 200)

SiblingInput(bs) ==
    [k \in 1..Len(bs) |-> SiblingFrame(k, bs[k])]
    \o <<Inside(Frame("N", <<"s0">>), bs[1], 10, 40, 40, 100),
         Inside(El("s0", "r", <<>>, <<>>, "", ""), bs[1], 20, 80, 20, 50)>>
    \o [k \in 1..Len(bs) |->
            Inside(El("s" \o ToString(k), "r", <<>>, <<>>, "", ""), bs[k], 10, 150, 30, 40)]

SiblingInputs ==
    {SiblingInput(bs) : bs \in UNION {[1..n -> Boxes] : n \in 2..MaxSiblings}}

\* const topLevelFrames = frames.filter(f => !childToParent.has(f.i))
TopLevelFrames(els) ==
    FilterIdx({k \in 1..Len(els) :
        IsFrame(els[k]) /\ ~HasParent(els, els[k].i)}, 1)

\* the list as Step 1 of resolveFrameOverlaps leaves it
HorizontalStep(els, siblingFrames) ==
    IF Len(siblingFrames) < 2 THEN els
    ELSE ResolveHorizontal([els |-> els, ok |-> TRUE],
            StableSort(siblingFrames,
                [k \in Range(siblingFrames) |-> OrElse(els[k].x, 0)]), 2).els

Resolved(els, siblingFrames) ==
    /\ elements' = resolveFrameOverlaps([els |-> els, ok |-> TRUE], siblingFrames).els
    /\ last' = [path |-> "resolved", edges |-> {}, ranked |-> FALSE,
                propagated |-> FALSE, shifted |-> HorizontalStep(els, siblingFrames)]

\* resolveFrameOverlaps(topLevelFrames, elementsById, childToParent)
ResolveOverlaps ==
    /\ calls = 0
    /\ Resolved(elements, TopLevelFrames(elements))
    /\ before' = elements
    /\ calls' = calls + 1
    /\ UNCHANGED streamVars
    /\ UNCHANGED parserVars
    /\ UNCHANGED storeVars

----------------------------------------------------------------------------
(* useExcalidrawStreaming.  The effect runs once per message update (a     *)
(* chunk); the timer callback runs when the debounce timer fires.          *)
(*                                                                         *)
(* The elements string of a chunk is modelled by what the streaming parser *)
(* recovers from it: objs closed objects, and whether an unfinished object *)
(* trails them.  The renderable elements produced from a chunk are         *)
(* modelled by the chunk they come from and their number.                  *)

MaxObjs == 2

MaxChunks == 4

ToolCalls == {"t1", "t2"}

Jsons == [objs : 0..MaxObjs, partial : BOOLEAN]

NoJson == [objs |-> 0 - 1, partial |-> FALSE]

NoTimer == [armed |-> FALSE, toolCallId |-> "", elementsJson |-> NoJson]

\* parseCompactExcalidrawStreaming(json).elements.length
ParsedCount(json) == json.objs

\* convertCompactToExcalidraw(layoutWithStrategy(parsed elements))
ExcalidrawElements(toolCallId, json) ==
    [toolCallId |-> toolCallId, json |-> json, length |-> ParsedCount(json)]

StreamInit ==
    /\ lastProcessedJsonRef = [t \in ToolCalls |-> NoJson]
    /\ debounceTimeoutRef = NoTimer
    /\ pendingElementsRef = <<>>
    /\ lastElementCountRef = 0
    /\ canvas = <<>>
    /\ latest = <<>>
    /\ fired = FALSE
    /\ chunks = 0
    /\ timers = <<>>
    /\ committed = 0
    /\ layoutRuns = 0

\* keeping the first result of a window instead of the newest
StorePendingFirst(pending, excalidrawElements) ==
    IF pending = <<>> THEN <<excalidrawElements>> ELSE pending

\* what the effect stores in pendingElementsRef
StorePending(pending, excalidrawElements) == <<excalidrawElements>>

\* the timer handle with the values its callback closes over
Armed(toolCallId, elementsJson) ==
    [armed |-> TRUE, toolCallId |-> toolCallId, elementsJson |-> elementsJson]

\* scheduling a callback without keeping its handle
ArmTimerNoHandle(ref, queue, toolCallId, elementsJson) ==
    IF ~ref.armed
    THEN [ref |-> ref, timers |-> Append(queue, Armed(toolCallId, elementsJson))]
    ELSE [ref |-> ref, timers |-> queue]

\* scheduling a callback whether or not one is pending
ArmTimerAlways(ref, queue, toolCallId, elementsJson) ==
    [ref |-> Armed(toolCallId, elementsJson),
     timers |-> Append(queue, Armed(toolCallId, elementsJson))]

\* keeping a handle for a callback that is never scheduled
ArmTimerUnscheduled(ref, queue, toolCallId, elementsJson) ==
    IF ~ref.armed
    THEN [ref |-> Armed(toolCallId, elementsJson), timers |-> queue]
    ELSE [ref |-> ref, timers |-> queue]

\* if (!debounceTimeoutRef.current) debounceTimeoutRef.current = setTimeout(..)
ArmTimer(ref, queue, toolCallId, elementsJson) ==
    IF ~ref.armed
    THEN [ref |-> Armed(toolCallId, elementsJson),
          timers |-> Append(queue, Armed(toolCallId, elementsJson))]
    ELSE [ref |-> ref, timers |-> queue]

\* the effect body for a message whose display_excalidraw call carries the
\* string elementsJson
ChunkArrives(toolCallId, elementsJson) ==
    /\ chunks < MaxChunks
    /\ chunks' = chunks + 1
    /\ fired' = FALSE
    /\ committed' = 0
    /\ IF lastProcessedJsonRef[toolCallId] = elementsJson
       THEN \* Skip if JSON hasn't changed
            UNCHANGED <<debounceTimeoutRef, pendingElementsRef, latest, timers,
                        layoutRuns>>
       ELSE IF ParsedCount(elementsJson) > 0
       THEN /\ pendingElementsRef' =
                  StorePending(pendingElementsRef,
                               ExcalidrawElements(toolCallId, elementsJson))
            /\ latest' = <<[toolCallId |-> toolCallId, json |-> elementsJson]>>
            /\ layoutRuns' = IF debounceTimeoutRef.armed THEN layoutRuns + 1 ELSE 1
            /\ debounceTimeoutRef' =
                  ArmTimer(debounceTimeoutRef, timers, toolCallId, elementsJson).ref
            /\ timers' =
                  ArmTimer(debounceTimeoutRef, timers, toolCallId, elementsJson).timers
       ELSE UNCHANGED <<debounceTimeoutRef, pendingElementsRef, latest, timers,
                        layoutRuns>>
    /\ UNCHANGED <<lastProcessedJsonRef, lastElementCountRef, canvas>>
    /\ UNCHANGED layoutVars
    /\ UNCHANGED parserVars
    /\ UNCHANGED storeVars

\* the effect runs for some message carrying a display_excalidraw call
ChunkArrivesAny == \E t \in ToolCalls, j \in Jsons : ChunkArrives(t, j)

\* the effect body for a message without a usable display_excalidraw call
\* (no tool call, args not an object, elements not a string)
ChunkIgnored ==
    /\ chunks < MaxChunks
    /\ chunks' = chunks + 1
    /\ fired' = FALSE
    /\ committed' = 0
    /\ UNCHANGED <<lastProcessedJsonRef, debounceTimeoutRef, pendingElementsRef,
                   lastElementCountRef, canvas, latest, timers, layoutRuns>>
    /\ UNCHANGED layoutVars
    /\ UNCHANGED parserVars
    /\ UNCHANGED storeVars

\* the setTimeout callback
TimerFires ==
    /\ timers # <<>>
    /\ timers' = Tail(timers)
    /\ LET pending == pendingElementsRef
       IN /\ debounceTimeoutRef' = NoTimer
          /\ pendingElementsRef' = <<>>
          /\ IF pending # <<>> /\ pending[1].length > 0
             THEN /\ lastElementCountRef' = pending[1].length
                  /\ canvas' = pending
                  /\ committed' = 1
                  /\ lastProcessedJsonRef' =
                        [lastProcessedJsonRef EXCEPT
                            ![Head(timers).toolCallId] = Head(timers).elementsJson]
             ELSE /\ committed' = 0
                  /\ UNCHANGED <<lastElementCountRef, canvas, lastProcessedJsonRef>>
    /\ fired' = TRUE
    /\ layoutRuns' = 0
    /\ UNCHANGED <<latest, chunks>>
    /\ UNCHANGED layoutVars
    /\ UNCHANGED parserVars
    /\ UNCHANGED storeVars

----------------------------------------------------------------------------
(* parseCompactExcalidrawStreaming.  A text is a sequence of characters:   *)
(* the braces and brackets, "q" for the double quote, "," and "x" for any  *)
(* other character.  An element is modelled by the text between the braces *)
(* of its object.                                                          *)

Chars == {"{", "}", "[", "]", "q", "x"}

NoResult == [elements |-> <<>>, isComplete |-> FALSE]

\* position of the bracket that opens the element array, 0 if there is none
ArrayStart(s) ==
    IF \E i \in 1..Len(s) : s[i] = "[" THEN SetMin({i \in 1..Len(s) : s[i] = "["})
    ELSE 0

RECURSIVE Nested(_, _, _, _)
\* the braces and brackets of s, outside strings, close in the order they
\* opened, and no string is left open
Nested(s, i, stack, inStr) ==
    IF i > Len(s) THEN stack = <<>> /\ ~inStr
    ELSE IF inStr THEN Nested(s, i + 1, stack, s[i] # "q")
    ELSE IF s[i] = "q" THEN Nested(s, i + 1, stack, TRUE)
    ELSE IF s[i] \in {"{", "["} THEN Nested(s, i + 1, <<s[i]>> \o stack, FALSE)
    ELSE IF s[i] = "}"
    THEN stack # <<>> /\ Head(stack) = "{" /\ Nested(s, i + 1, Tail(stack), FALSE)
    ELSE IF s[i] = "]"
    THEN stack # <<>> /\ Head(stack) = "[" /\ Nested(s, i + 1, Tail(stack), FALSE)
    ELSE Nested(s, i + 1, stack, FALSE)

\* the text of a closed object is a valid object
ValidObject(obj) == Nested(obj, 1, <<>>, FALSE)

\* the element read from the text of a valid object
ParseObject(obj) == SubSeq(obj, 2, Len(obj) - 1)

\* a closed object put in front of the elements recovered so far
CloseObjectFirst(acc, obj) ==
    IF ValidObject(obj) THEN <<ParseObject(obj)>> \o acc ELSE acc

\* a closed object joins the result when it is valid and is dropped otherwise
CloseObject(acc, obj) ==
    IF ValidObject(obj) THEN Append(acc, ParseObject(obj)) ELSE acc

\* the unclosed object at the end of the text returned with the others
AtEndKeepsTrailing(acc, s, start, depth) ==
    IF depth > 0 THEN Append(acc, SubSeq(s, start + 1, Len(s))) ELSE acc

\* the end of the text: an object still open is dropped
AtEnd(acc, s, start, depth) == acc

\* braces inside string values taken for structure
EntersStringNever(c) == FALSE

\* a double quote inside an object opens a string value
EntersString(c) == c = "q"

RECURSIVE ScanFrom(_, _, _, _, _, _)
\* the scan of the array from position i: depth counts the open braces of the
\* current object, start is where it opened, acc the elements recovered
ScanFrom(s, i, depth, inStr, start, acc) ==
    IF i > Len(s)
    THEN [elements |-> AtEnd(acc, s, start, depth), isComplete |-> FALSE]
    ELSE IF depth = 0
    THEN IF s[i] = "{" THEN ScanFrom(s, i + 1, 1, FALSE, i, acc)
         ELSE IF s[i] = "]" THEN [elements |-> acc, isComplete |-> TRUE]
         ELSE ScanFrom(s, i + 1, 0, FALSE, start, acc)
    ELSE IF inStr THEN ScanFrom(s, i + 1, depth, s[i] # "q", start, acc)
    ELSE IF EntersString(s[i]) THEN ScanFrom(s, i + 1, depth, TRUE, start, acc)
    ELSE IF s[i] = "{" THEN ScanFrom(s, i + 1, depth + 1, FALSE, start, acc)
    ELSE IF s[i] = "}"
    THEN IF depth = 1
         THEN ScanFrom(s, i + 1, 0, FALSE, start,
                       CloseObject(acc, SubSeq(s, start, i)))
         ELSE ScanFrom(s, i + 1, depth - 1, FALSE, start, acc)
    ELSE ScanFrom(s, i + 1, depth, FALSE, start, acc)

parseCompactExcalidrawStreaming(s) ==
    IF ArrayStart(s) = 0 THEN NoResult
    ELSE ScanFrom(s, ArrayStart(s) + 1, 0, FALSE, 0, <<>>)

(* The texts given to the parser: every short text, and the prefixes of    *)
(* well-formed element arrays (bare or under the "e" key) whose objects    *)
(* are known by construction.                                              *)

MaxText == 4

MaxDocObjs == 2

MaxFeed == 3

\* every text of at most n characters
Texts(n) == UNION {[1..k -> Chars] : k \in 0..n}

\* the texts between the braces of the objects of a well-formed array: no
\* field, a plain field, a string value, a string value holding a brace, a
\* child list, a nested object
Bodies ==
    {<<>>, <<"x">>, <<"q", "x", "q">>, <<"q", "}", "q">>, <<"q", "{", "q">>,
     <<"x", "[", "x", "]">>, <<"{", "x", "}">>}

BareDoc(objs) == [head |-> <<"[">>, objs |-> objs, tail |-> <<"]">>, wf |-> TRUE]

KeyedDoc(objs) ==
    [head |-> <<"{", "q", "x", "q", "[">>, objs |-> objs, tail |-> <<"]", "}">>,
     wf |-> TRUE]

AnyDoc(s) == [head |-> s, objs |-> <<>>, tail |-> <<>>, wf |-> FALSE]

ObjLists == UNION {[1..k -> Bodies] : k \in 0..MaxDocObjs}

Docs ==
    {AnyDoc(s) : s \in Texts(MaxText)}
        \cup {BareDoc(objs) : objs \in ObjLists}
        \cup {KeyedDoc(objs) : objs \in ObjLists}

RECURSIVE JoinObjs(_, _)
JoinObjs(objs, k) ==
    IF k > Len(objs) THEN <<>>
    ELSE (IF k > 1 THEN <<",">> ELSE <<>>)
            \o <<"{">> \o objs[k] \o <<"}">> \o JoinObjs(objs, k + 1)

\* the whole text of a document
DocText(d) == d.head \o JoinObjs(d.objs, 1) \o d.tail

\* position of the closing brace of the k-th object of a document
ObjEnd(d, k) == Len(d.head) + Len(JoinObjs(SubSeq(d.objs, 1, k), 1))

\* position of its opening brace
ObjStart(d, k) == ObjEnd(d, k) - Len(d.objs[k]) - 1

ParserIdle ==
    /\ doc = AnyDoc(<<>>)
    /\ received = <<>>
    /\ parsed = NoResult
    /\ parsedBefore = NoResult

ParserInit ==
    /\ doc \in Docs
    /\ received = <<>>
    /\ parsed = parseCompactExcalidrawStreaming(<<>>)
    /\ parsedBefore = parseCompactExcalidrawStreaming(<<>>)

\* the text grows by k characters and is parsed again
Feed(k) ==
    /\ Len(received) + k <= Len(DocText(doc))
    /\ received' = SubSeq(DocText(doc), 1, Len(received) + k)
    /\ parsed' = parseCompactExcalidrawStreaming(received')
    /\ parsedBefore' = parsed
    /\ UNCHANGED doc
    /\ UNCHANGED layoutVars
    /\ UNCHANGED streamVars
    /\ UNCHANGED storeVars

\* the next chunk of the stream arrives
FeedAny == \E k \in 1..MaxFeed : Feed(k)

----------------------------------------------------------------------------
(* BindingService: the in-memory index of canvas bindings                  *)

BindingIds == {"b1", "b2"}

ElementIds == {"e1", "e2"}

BlockIds == {"k1", "k2"}

\* the fields of a CanvasBinding the service reads
CanvasBinding ==
    [id : BindingIds, elementId : ElementIds, blockId : BlockIds,
     isElementDeleted : BOOLEAN]

\* the four private collections, all empty; an absent block key is the
\* empty set, since a key is always created together with its first member
EmptyService ==
    [bindings |-> [i \in BindingIds |-> <<>>],
     elementToBinding |-> [e \in ElementIds |-> <<>>],
     blockToBindings |-> [k \in BlockIds |-> {}],
     deletedElements |-> {}]

\* addBinding: store the binding and index it by element and by block
addBinding(s, binding) ==
    [s EXCEPT !.bindings[binding.id] = <<binding>>,
              !.elementToBinding[binding.elementId] = <<binding.id>>,
              !.blockToBindings[binding.blockId] = @ \cup {binding.id}]

\* one round of the forEach of initialize
InitializeOne(s, binding) ==
    IF binding.isElementDeleted
    THEN [addBinding(s, binding) EXCEPT !.deletedElements = @ \cup {binding.elementId}]
    ELSE addBinding(s, binding)

RECURSIVE InitializeEach(_, _)
InitializeEach(s, list) ==
    IF list = <<>> THEN s
    ELSE InitializeEach(InitializeOne(s, Head(list)), Tail(list))

\* initialize: clear everything, then index the list
initialize(list) == InitializeEach(EmptyService, list)

\* deleteBinding: nothing for an unknown id, else drop the binding, the
\* index entry and the deleted mark of its element, and its block membership
deleteBinding(s, bindingId) ==
    IF s.bindings[bindingId] = <<>> THEN s
    ELSE [s EXCEPT !.bindings[bindingId] = <<>>,
                   !.elementToBinding[s.bindings[bindingId][1].elementId] = <<>>,
                   !.deletedElements = @ \ {s.bindings[bindingId][1].elementId},
                   !.blockToBindings[s.bindings[bindingId][1].blockId] = @ \ {bindingId}]

\* one round of markElementsAsDeleted (deleted = TRUE) or restoreElements
SetDeletedOne(s, elementId, deleted) ==
    IF s.elementToBinding[elementId] = <<>> THEN s
    ELSE IF s.bindings[s.elementToBinding[elementId][1]] = <<>> THEN s
    ELSE IF s.bindings[s.elementToBinding[elementId][1]][1].isElementDeleted = deleted THEN s
    ELSE [s EXCEPT !.bindings[s.elementToBinding[elementId][1]] =
                       <<[@[1] EXCEPT !.isElementDeleted = deleted]>>,
                   !.deletedElements = IF deleted THEN @ \cup {elementId}
                                       ELSE @ \ {elementId}]

RECURSIVE SetDeletedEach(_, _, _)
SetDeletedEach(s, elementIds, deleted) ==
    IF elementIds = <<>> THEN s
    ELSE SetDeletedEach(SetDeletedOne(s, Head(elementIds), deleted),
                        Tail(elementIds), deleted)

markElementsAsDeleted(s, elementIds) == SetDeletedEach(s, elementIds, TRUE)

restoreElements(s, elementIds) == SetDeletedEach(s, elementIds, FALSE)

getAllBindings(s) ==
    {s.bindings[i][1] : i \in {j \in BindingIds : s.bindings[j] # <<>>}}

getActiveBindings(s) == {b \in getAllBindings(s) : ~b.isElementDeleted}

\* the binding found, or <<>> for undefined
getBindingByElementId(s, elementId) ==
    IF s.elementToBinding[elementId] = <<>> THEN <<>>
    ELSE s.bindings[s.elementToBinding[elementId][1]]

getBindingsByBlockId(s, blockId) ==
    {s.bindings[i][1] : i \in {j \in s.blockToBindings[blockId] : s.bindings[j] # <<>>}}

isElementDeleted(s, elementId) == elementId \in s.deletedElements

\* the lists initialize receives: rows of the bindings table, ids distinct
BindingLists ==
    UNION {{list \in [1..n -> CanvasBinding] :
                \A i, j \in 1..n : list[i].id = list[j].id => i = j}
           : n \in 0..Cardinality(BindingIds)}

\* the element id lists the canvas reports, ids distinct
ElementLists ==
    UNION {{list \in [1..n -> ElementIds] :
                \A i, j \in 1..n : list[i] = list[j] => i = j}
           : n \in 0..Cardinality(ElementIds)}

NoOp == [op |-> "other", id |-> "", was |-> EmptyService]

ServiceIdle ==
    /\ bindingService = EmptyService
    /\ lastOp = NoOp

ServiceInitialize ==
    /\ \E list \in BindingLists : bindingService' = initialize(list)
    /\ lastOp' = NoOp
    /\ UNCHANGED <<layoutVars, streamVars, parserVars, page, bindingCache>>

ServiceAdd ==
    /\ \E binding \in CanvasBinding :
           bindingService' = addBinding(bindingService, binding)
    /\ lastOp' = NoOp
    /\ UNCHANGED <<layoutVars, streamVars, parserVars, page, bindingCache>>

ServiceDelete ==
    /\ \E bindingId \in BindingIds :
           /\ bindingService' = deleteBinding(bindingService, bindingId)
           /\ lastOp' = IF bindingService.bindings[bindingId] = <<>> THEN NoOp
                        ELSE [op |-> "deleteBinding", id |-> bindingId,
                              was |-> bindingService]
    /\ UNCHANGED <<layoutVars, streamVars, parserVars, page, bindingCache>>

ServiceMark ==
    /\ \E elementIds \in ElementLists :
           bindingService' = markElementsAsDeleted(bindingService, elementIds)
    /\ lastOp' = NoOp
    /\ UNCHANGED <<layoutVars, streamVars, parserVars, page, bindingCache>>

ServiceRestore ==
    /\ \E elementIds \in ElementLists :
           bindingService' = restoreElements(bindingService, elementIds)
    /\ lastOp' = NoOp
    /\ UNCHANGED <<layoutVars, streamVars, parserVars, page, bindingCache>>

ServiceClear ==
    /\ bindingService' = EmptyService
    /\ lastOp' = NoOp
    /\ UNCHANGED <<layoutVars, streamVars, parserVars, page, bindingCache>>

----------------------------------------------------------------------------
(* DocumentIdPage: loadDocument, the cache-first loading of a document     *)

MaxVersion == 2

Versions == 0..MaxVersion

\* a document as far as loadDocument reads it, with the place it came from
Document(version, from) == [version |-> version, from |-> from]

\* what a source of the document may hold: nothing, or a copy of some version
Copies(from) == {<<>>} \cup {<<Document(v, from)>> : v \in Versions}

\* the effect starts with the state of the render that scheduled it: nothing
\* displayed (first mount), or the document of the page being left
PageStart(shown) ==
    [document |-> shown,
     displayed |-> shown,
     documentVersionRef |-> IF shown = <<>> THEN 0 ELSE shown[1].version,
     isMounted |-> TRUE,
     pc |-> "store",
     step |-> "effect",
     shown |-> shown]

\* the page before any document id is known
PageIdle == page = [PageStart(<<>>) EXCEPT !.pc = "done"]

PageInit == \E shown \in Copies("previous") : page = PageStart(shown)

\* setDocument(d) together with the assignment to documentVersionRef
Show(pg, d, step) ==
    [pg EXCEPT !.displayed = d, !.documentVersionRef = d[1].version,
               !.step = step, !.shown = pg.displayed]

\* a step that calls no setDocument
Keep(pg, step) == [pg EXCEPT !.step = step, !.shown = pg.displayed]

\* step 1: the copy in the Zustand store, shown at once
StoreStep(pg, storeDoc) ==
    IF storeDoc # <<>> /\ pg.isMounted
    THEN Show(pg, storeDoc, "store")
    ELSE Keep(pg, "store")

\* step 2: the copy in the IndexedDB cache; document is the value the effect
\* closed over
CacheStep(pg, cached) ==
    IF cached # <<>> /\ pg.isMounted
       /\ (pg.document = <<>> \/ cached[1].version > pg.documentVersionRef)
    THEN Show(pg, cached, "cache")
    ELSE Keep(pg, "cache")

\* step 3: the server copy; failed stands for a rejected getById
ServerStep(pg, serverDoc, failed) ==
    IF ~failed /\ serverDoc # <<>> /\ pg.isMounted
    THEN IF serverDoc[1].version >= pg.documentVersionRef
         THEN Show(pg, serverDoc, "server")
         ELSE Keep(pg, "server")
    ELSE IF pg.document = <<>> /\ pg.isMounted
         THEN [pg EXCEPT !.displayed = <<>>, !.step = "server", !.shown = pg.displayed]
         ELSE Keep(pg, "server")

LoadFromStore ==
    /\ page.pc = "store"
    /\ \E storeDoc \in Copies("store") :
           page' = [StoreStep(page, storeDoc) EXCEPT !.pc = "cache"]
    /\ UNCHANGED <<layoutVars, streamVars, parserVars, bindingService, lastOp, bindingCache>>

LoadFromCache ==
    /\ page.pc = "cache"
    /\ \E cached \in Copies("cache") :
           page' = [CacheStep(page, cached) EXCEPT !.pc = "server"]
    /\ UNCHANGED <<layoutVars, streamVars, parserVars, bindingService, lastOp, bindingCache>>

LoadFromServer ==
    /\ page.pc = "server"
    /\ \E serverDoc \in Copies("server"), failed \in BOOLEAN :
           page' = [ServerStep(page, serverDoc, failed) EXCEPT !.pc = "done"]
    /\ UNCHANGED <<layoutVars, streamVars, parserVars, bindingService, lastOp, bindingCache>>

\* the cleanup of the effect: the page moves to another document id
Unmount ==
    /\ page.pc # "done"
    /\ page.isMounted
    /\ page' = [Keep(page, "cleanup") EXCEPT !.isMounted = FALSE]
    /\ UNCHANGED <<layoutVars, streamVars, parserVars, bindingService, lastOp, bindingCache>>

----------------------------------------------------------------------------
(* BindingCache: a memory cache in front of an IndexedDB object store      *)

MaxCacheCalls == 4

DocumentIds == {"d1", "d2"}

\* the binding lists a cache entry may hold
CachedLists == {"v1", "v2"}

NoGet == [done |-> FALSE, documentId |-> "", result |-> <<>>, afterClear |-> FALSE]

\* a call suspended at `await this.init()`, or its request to the store;
\* clean tells, for a clear, that no set was called since it was called, and
\* for a get, that it was called after a clear had resolved with no set since
Call(op, documentId, bindings, clean) ==
    [op |-> op, documentId |-> documentId, bindings |-> bindings, clean |-> clean]

\* the cache of a fresh page over whatever IndexedDB holds from before
CacheStart(store) ==
    [memoryCache |-> [d \in DocumentIds |-> <<>>],
     store |-> store,
     awaiting |-> <<>>,
     requests |-> <<>>,
     cleared |-> FALSE,
     calls |-> 0,
     lastGet |-> NoGet]

CacheIdle == bindingCache = CacheStart([d \in DocumentIds |-> <<>>])

CacheInit ==
    \E store \in [DocumentIds -> {<<>>} \cup {<<v>> : v \in CachedLists}] :
        bindingCache = CacheStart(store)

\* a get has returned
GetReturned(c, documentId, result, afterClear) ==
    [c EXCEPT !.lastGet = [done |-> TRUE, documentId |-> documentId,
                           result |-> result, afterClear |-> afterClear]]

\* get up to its first await: a memory hit returns at once
GetCalled(c, documentId) ==
    IF c.memoryCache[documentId] # <<>>
    THEN GetReturned(c, documentId, c.memoryCache[documentId], c.cleared)
    ELSE [c EXCEPT !.awaiting = Append(@, Call("get", documentId, "", c.cleared)),
                   !.lastGet = NoGet]

\* a set spoils the clears still in flight and the gets that wait for one
Spoiled(queue) == [k \in 1..Len(queue) |-> [queue[k] EXCEPT !.clean = FALSE]]

\* set up to its first await
SetCalled(c, documentId, bindings) ==
    [c EXCEPT !.memoryCache[documentId] = <<bindings>>,
              !.cleared = FALSE,
              !.awaiting = Append(Spoiled(@), Call("set", documentId, bindings, FALSE)),
              !.requests = Spoiled(@),
              !.lastGet = NoGet]

\* clear up to its first await
ClearCalled(c) ==
    [c EXCEPT !.memoryCache = [d \in DocumentIds |-> <<>>],
              !.awaiting = Append(@, Call("clear", "", "", TRUE)),
              !.lastGet = NoGet]

\* the oldest suspended call resumes after init and places its request
Resumed(c) ==
    [c EXCEPT !.awaiting = Tail(@),
              !.requests = Append(@, Head(c.awaiting)),
              !.lastGet = NoGet]

\* onsuccess of a store.get
GetSucceeded(c, req) ==
    IF c.store[req.documentId] # <<>>
    THEN GetReturned([c EXCEPT !.memoryCache[req.documentId] = c.store[req.documentId]],
                     req.documentId, c.store[req.documentId], req.clean)
    ELSE GetReturned(c, req.documentId, <<>>, req.clean)

\* the store carries out its oldest request and runs the success callback
Served(c, req) ==
    CASE req.op = "get" -> GetSucceeded([c EXCEPT !.requests = Tail(@)], req)
      [] req.op = "set" ->
            [c EXCEPT !.requests = Tail(@),
                      !.store[req.documentId] = <<req.bindings>>,
                      !.lastGet = NoGet]
      [] OTHER ->
            [c EXCEPT !.requests = Tail(@),
                      !.store = [d \in DocumentIds |-> <<>>],
                      !.cleared = c.cleared \/ req.clean,
                      !.lastGet = NoGet]

CacheGet ==
    /\ bindingCache.calls < MaxCacheCalls
    /\ \E d \in DocumentIds :
           bindingCache' = [GetCalled(bindingCache, d) EXCEPT !.calls = @ + 1]
    /\ UNCHANGED <<layoutVars, streamVars, parserVars, bindingService, lastOp, page>>

CacheSet ==
    /\ bindingCache.calls < MaxCacheCalls
    /\ \E d \in DocumentIds, v \in CachedLists :
           bindingCache' = [SetCalled(bindingCache, d, v) EXCEPT !.calls = @ + 1]
    /\ UNCHANGED <<layoutVars, streamVars, parserVars, bindingService, lastOp, page>>

CacheClear ==
    /\ bindingCache.calls < MaxCacheCalls
    /\ bindingCache' = [ClearCalled(bindingCache) EXCEPT !.calls = @ + 1]
    /\ UNCHANGED <<layoutVars, streamVars, parserVars, bindingService, lastOp, page>>

CacheResume ==
    /\ bindingCache.awaiting # <<>>
    /\ bindingCache' = Resumed(bindingCache)
    /\ UNCHANGED <<layoutVars, streamVars, parserVars, bindingService, lastOp, page>>

CacheServe ==
    /\ bindingCache.requests # <<>>
    /\ bindingCache' = Served(bindingCache, Head(bindingCache.requests))
    /\ UNCHANGED <<layoutVars, streamVars, parserVars, bindingService, lastOp, page>>

----------------------------------------------------------------------------
(* Specifications                                                          *)

StoreIdle == ServiceIdle /\ PageIdle /\ CacheIdle

Init == LayoutInit(Inputs) /\ StreamInit /\ ParserIdle /\ StoreIdle

Next == Layout

\* layoutWithDagre on well-formed inputs
Spec == Init /\ [][Next]_vars

\* layoutWithDagre on any input, malformed containment included
AnyInit == LayoutInit(Inputs \cup CyclicInputs) /\ StreamInit /\ ParserIdle /\ StoreIdle

AnySpec == AnyInit /\ [][Next]_vars

StreamNext == ChunkArrivesAny \/ ChunkIgnored \/ TimerFires

\* the streaming hook
HookInit == LayoutInit({<<>>}) /\ StreamInit /\ ParserIdle /\ StoreIdle

StreamSpec == HookInit /\ [][StreamNext]_vars

\* the hook when every scheduled timeout eventually runs its callback
StreamLive == StreamSpec /\ WF_vars(TimerFires)

OverlapInit == LayoutInit(SiblingInputs) /\ StreamInit /\ ParserIdle /\ StoreIdle

OverlapNext == ResolveOverlaps

\* resolveFrameOverlaps on sibling frames
OverlapSpec == OverlapInit /\ [][OverlapNext]_vars

ParserStart == LayoutInit({<<>>}) /\ StreamInit /\ ParserInit /\ StoreIdle

ParserNext == FeedAny

\* the streaming parser on a growing text
ParserSpec == ParserStart /\ [][ParserNext]_vars

ServiceInit ==
    LayoutInit({<<>>}) /\ StreamInit /\ ParserIdle /\ ServiceIdle /\ PageIdle /\ CacheIdle

ServiceNext ==
    \/ ServiceInitialize
    \/ ServiceAdd
    \/ ServiceDelete
    \/ ServiceMark
    \/ ServiceRestore
    \/ ServiceClear

MemberInit ==
    LayoutInit(MemberInputs \cup WideMemberInputs) /\ StreamInit /\ ParserIdle /\ StoreIdle

\* layoutWithDagre on lists where a frame lists a connector as a child
MemberSpec == MemberInit /\ [][Next]_vars

\* the binding service under any sequence of its operations
ServiceSpec == ServiceInit /\ [][ServiceNext]_vars

PageLoad ==
    LayoutInit({<<>>}) /\ StreamInit /\ ParserIdle /\ ServiceIdle /\ PageInit /\ CacheIdle

PageNext == LoadFromStore \/ LoadFromCache \/ LoadFromServer \/ Unmount

\* one run of loadDocument
PageSpec == PageLoad /\ [][PageNext]_vars

CacheLoad ==
    LayoutInit({<<>>}) /\ StreamInit /\ ParserIdle /\ ServiceIdle /\ PageIdle /\ CacheInit

CacheNext == CacheGet \/ CacheSet \/ CacheClear \/ CacheResume \/ CacheServe

\* the binding cache under interleaved get, set and clear calls
CacheSpec == CacheLoad /\ [][CacheNext]_vars

----------------------------------------------------------------------------
(* Vocabulary of the properties                                            *)

Called == calls >= 1

Geometry(el) == <<el.x, el.y, el.w, el.h>>

Positioned(el) == IsDef(el.x) /\ IsDef(el.y) /\ IsDef(el.w) /\ IsDef(el.h)

\* more than half of the non-connector elements carry x and y
MostlyPositioned(els) ==
    LET nonConnectors == {k \in 1..Len(els) : ~IsArrow(els[k])}
        withCoords == {k \in nonConnectors : IsDef(els[k].x) /\ IsDef(els[k].y)}
    IN 2 * Cardinality(withCoords) > Cardinality(nonConnectors)

\* known non-connector children of element k
KnownChildren(els, k) ==
    {c \in 1..Len(els) : els[c].i \in Range(els[k].ch) /\ ~IsArrow(els[c])}

\* known non-connector descendants of element k (children, their children, ...)
RECURSIVE DescendantsWithin(_, _, _)
DescendantsWithin(els, k, fuel) ==
    IF fuel = 0 THEN {}
    ELSE KnownChildren(els, k) \cup
         UNION {DescendantsWithin(els, c, fuel - 1) : c \in KnownChildren(els, k)}

Descendants(els, k) == DescendantsWithin(els, k, Len(els))

\* the box of f, shrunk by its padding, contains the box of d
InnerContains(f, d) ==
    /\ f.x[1] + PADDING <= d.x[1]
    /\ d.x[1] + d.w[1] <= f.x[1] + f.w[1] - PADDING
    /\ f.y[1] + PADDING + TITLE_OFFSET <= d.y[1]
    /\ d.y[1] + d.h[1] <= f.y[1] + f.h[1] - PADDING

\* the parent a frame is listed under, "" at top level
ParentOf(els, k) ==
    IF HasParent(els, els[k].i)
    THEN els[CHOOSE p \in 1..Len(els) : els[k].i \in Range(els[p].ch)].i
    ELSE ""

\* where the rank pass put the elements of the list the call started from
RankPass(els) == ApplyPositions(els, DagreLayout(els, GraphEdges(els), DEFAULT_CONFIG))

----------------------------------------------------------------------------
(* Properties of layoutWithDagre                                           *)

\* C1: when more than half of the non-connector elements carry x and y, the
\* call returns the list unchanged and runs no layout pass; when half or
\* fewer do, the skip is not taken.
C1_SkipThreshold ==
    Called =>
        /\ MostlyPositioned(before) =>
              elements = before /\ last.path = "skip" /\ ~last.ranked
        /\ ~MostlyPositioned(before) => last.path # "skip"

\* C3: after a completed pass every frame with a positioned descendant has a
\* box that, shrunk by its padding, contains every positioned descendant.
C3_FrameContainment ==
    (Called /\ last.path = "complete") =>
        \A f \in 1..Len(elements) : IsFrame(elements[f]) =>
            \A d \in Descendants(elements, f) : Positioned(elements[d]) =>
                /\ Positioned(elements[f])
                /\ InnerContains(elements[f], elements[d])

\* a completed pass in which a nested frame was moved by overlap resolution
\* and its parent frame still holds it
C3_Witness ==
    /\ calls = 1 /\ last.path = "complete"
    /\ \E f, g, d \in 1..Len(elements) :
          /\ IsFrame(elements[f]) /\ IsFrame(elements[g]) /\ IsGraphNode(elements[d])
          /\ g \in KnownChildren(elements, f) /\ d \in KnownChildren(elements, g)
          /\ Positioned(elements[f]) /\ Positioned(elements[g])
          /\ elements[d].x # RankPass(before)[d].x

\* C4: in the final result the horizontal extents of any two sibling frames
\* are at least the minimum gap apart.
C4_SiblingGap ==
    (Called /\ last.path = "complete") =>
        \A f, g \in 1..Len(elements) :
            (/\ f # g /\ IsFrame(elements[f]) /\ IsFrame(elements[g])
             /\ Positioned(elements[f]) /\ Positioned(elements[g])
             /\ ParentOf(elements, f) = ParentOf(elements, g)) =>
                \/ elements[f].x[1] + elements[f].w[1] + GAP <= elements[g].x[1]
                \/ elements[g].x[1] + elements[g].w[1] + GAP <= elements[f].x[1]

\* C5: a second call on the output of the first changes no x, y, w or h.
C5_Idempotent ==
    calls = 2 =>
        \A k \in 1..Len(elements) : Geometry(elements[k]) = Geometry(before[k])

C7_NoNodes ==
    (Called /\ \A k \in 1..Len(before) : ~IsGraphNode(before[k])) =>
        /\ elements = before
        /\ ~last.ranked
        /\ ~last.propagated
        /\ last.path \in {"skip", "nonodes"}

\* a call on a list that holds frames with children but no node
C7_Witness ==
    /\ calls = 1 /\ last.path = "nonodes"
    /\ \E f \in 1..Len(before) : IsFrame(before[f]) /\ KnownChildren(before, f) # {}

\* a connector whose source or end is missing or is not a graph node
Dangling(els, k) ==
    /\ IsArrow(els[k])
    /\ ~(/\ els[k].si # "" /\ els[k].ei # ""
         /\ HasNode(els, els[k].si) /\ HasNode(els, els[k].ei))

\* the <<source, end>> pairs of the connectors that do resolve
ResolvedPairs(els) ==
    {<<els[k].si, els[k].ei>> :
        k \in {j \in 1..Len(els) : IsArrow(els[j]) /\ ~Dangling(els, j)}}

\* C8: a connector with an unknown source or end adds no edge to the graph,
\* every node is still laid out, and the call does not fail.
C8_DanglingConnector ==
    (/\ Called /\ last.path # "skip"
     /\ \E k \in 1..Len(before) : Dangling(before, k)) =>
        /\ \A e \in last.edges : HasNode(before, e[1]) /\ HasNode(before, e[2])
        /\ last.edges = ResolvedPairs(before)
        /\ ~last.propagated
        /\ last.path \in {"complete", "nonodes"}
        /\ \A k \in 1..Len(elements) : IsGraphNode(elements[k]) =>
              (last.path = "complete" => Positioned(elements[k]))

\* a completed pass over a list with one resolved and one dangling connector
C8_Witness ==
    /\ calls = 1 /\ last.path = "complete"
    /\ \E k \in 1..Len(before) : Dangling(before, k)
    /\ last.edges # {}

\* the children of frame f were put on one vertical position by the rank pass
SingleRow(els, f, n) ==
    /\ Len(els[f].ch) = n
    /\ Cardinality(KnownChildren(els, f)) = n
    /\ \A c \in KnownChildren(els, f) : IsGraphNode(els[c])
    /\ \A c, d \in KnownChildren(els, f) : RankPass(els)[c].y = RankPass(els)[d].y

\* C9: a frame whose 6 children the rank pass put in one row ends up with a
\* width-to-height ratio closer to 1 than that of the single row, and every
\* child lies inside the final frame box.
C9_WideFrameReflow ==
    (calls = 1 /\ last.path = "complete") =>
        \A f \in 1..Len(elements) :
            (IsFrame(before[f]) /\ SingleRow(before, f, 6)) =>
                LET row == FrameBox(RankPass(before), f)
                    fin == elements[f]
                IN /\ Positioned(fin)
                   /\ Abs(fin.w[1] - fin.h[1]) * row.h < Abs(row.w - row.h) * fin.h[1]
                   /\ \A c \in KnownChildren(elements, f) :
                         InnerContains(fin, elements[c])

\* C2: no exception raised by rank assignment or a later pass leaves the
\* call: the same list is returned, and what a pass had written before the
\* failure is still there.
C2_NoPropagation ==
    Called =>
        /\ ~last.propagated
        /\ Len(elements) = Len(before)
        /\ \A k \in 1..Len(elements) : elements[k].i = before[k].i
        /\ last.path = "caught" =>
              \A k \in 1..Len(elements) : IsGraphNode(elements[k]) =>
                  /\ Positioned(elements[k])
                  /\ elements[k].w = Some(NodeWidth(before[k]))
                  /\ elements[k].h = Some(NodeHeight(before[k]))

\* a call in which a pass failed after the rank pass had placed the nodes
C2_Witness == calls = 1 /\ last.path = "caught" /\ last.ranked

\* consecutive top-level non-connector elements, neither of them a frame
SynthesizedPairs(els) ==
    {<<els[a].i, els[b].i>> : <<a, b>> \in {p \in (1..Len(els)) \X (1..Len(els)) :
        /\ p[1] < p[2]
        /\ IsRoot(els, els[p[1]]) /\ IsRoot(els, els[p[2]])
        /\ \A c \in (p[1] + 1)..(p[2] - 1) : ~IsRoot(els, els[c])
        /\ ~IsFrame(els[p[1]]) /\ ~IsFrame(els[p[2]])}}

HasConnector(els) == \E k \in 1..Len(els) : IsArrow(els[k])

\* no connector of the list has both ends on graph nodes
NoneResolves(els) ==
    \A k \in 1..Len(els) :
        IsArrow(els[k]) =>
            ~(/\ els[k].si # "" /\ els[k].ei # ""
              /\ \E a \in 1..Len(els) : els[a].i = els[k].si /\ IsGraphNode(els[a])
              /\ \E b \in 1..Len(els) : els[b].i = els[k].ei /\ IsGraphNode(els[b]))

\* C16: whenever no connector of the input resolves to an edge, connectors
\* with unresolved ends included, the graph gets the edges between
\* consecutive top-level non-connector elements, frames skipped.
C16_EdgeSynthesis ==
    (Called /\ last.path # "skip" /\ NoneResolves(before))
        => last.edges = SynthesizedPairs(before)

\* C16 (amended): edges are synthesized exactly when the input holds no
\* connector element; when connectors exist and none resolves the graph has
\* no edge at all.
C16_SynthesisWithoutConnectors ==
    (Called /\ last.path # "skip") =>
        /\ ~HasConnector(before) => last.edges = SynthesizedPairs(before)
        /\ (HasConnector(before) /\ NoneResolves(before)) => last.edges = {}

\* a layout of two top-level shapes and a connector with an unknown end
C16_Witness ==
    /\ calls = 1 /\ last.path = "complete"
    /\ HasConnector(before) /\ NoneResolves(before)
    /\ SynthesizedPairs(before) # {}
    /\ last.edges = {}

\* no known non-connector descendant of element k carries a full box
NoPositionedDescendant(els, k) ==
    \A d \in Descendants(els, k) : ~Positioned(els[d])

\* C17: a frame none of whose descendants is positioned, among them a frame
\* whose only children are frames without geometry, receives no x, y, w or h
\* from the bounding passes.
C17_SkipUnpositioned ==
    (calls = 1 /\ last.path = "complete") =>
        \A k \in 1..Len(elements) :
            (IsFrame(elements[k]) /\ NoPositionedDescendant(elements, k))
                => Geometry(elements[k]) = Geometry(before[k])

\* C18: on any input, child lists with cycles included, every recursive
\* traversal stops on a revisit: no call ends with the recursion of
\* shiftElementAndDescendants running past any depth the list can have.
C18_BoundedTraversal == Called => last.path # "caught"

\* number of glyphs of class g in a label
Glyphs(l, g) == Cardinality({k \in 1..Len(l) : l[k] = g})

\* C21: a node without an explicit width is as wide as max(100, 24 + 10 per
\* non-CJK character + 18 per CJK character), 100 for an empty label; an
\* explicit non-zero width is used as given.
C21_EstimatedWidth ==
    (Called /\ last.ranked) =>
        \A k \in 1..Len(before) :
            IsGraphNode(before[k]) =>
                IF IsDef(before[k].w) /\ before[k].w # Some(0)
                THEN elements[k].w = before[k].w
                ELSE /\ elements[k].w =
                          Some(IF before[k].l = <<>> THEN 100
                               ELSE Max2(100, 24 + 10 * Glyphs(before[k].l, "L")
                                                 + 18 * Glyphs(before[k].l, "C")))
                     /\ elements[k].w[1] >= 100

\* a layout that estimated a width at the floor and one above it
C21_Witness ==
    /\ calls = 1 /\ last.path = "complete"
    /\ \E k \in 1..Len(before) :
          /\ IsGraphNode(before[k]) /\ ~IsDef(before[k].w)
          /\ before[k].l # <<>> /\ elements[k].w = Some(100)
    /\ \E k \in 1..Len(before) :
          /\ IsGraphNode(before[k]) /\ ~IsDef(before[k].w)
          /\ Glyphs(before[k].l, "C") > 0 /\ elements[k].w[1] > 100

\* C30: a node whose width and height are both estimated holds its label on
\* one line: its height is 50 for an empty label, 67 for a label with a CJK
\* character and 62 for any other label.
C30_OneLineHeight ==
    (Called /\ last.ranked) =>
        \A k \in 1..Len(before) :
            (/\ IsGraphNode(before[k])
             /\ OrElse(before[k].w, 0) = 0 /\ OrElse(before[k].h, 0) = 0)
                => elements[k].h =
                      Some(IF before[k].l = <<>> THEN 50
                           ELSE IF Glyphs(before[k].l, "C") > 0 THEN 67 ELSE 62)

\* a layout that sized a label wider than the minimum width, with a CJK
\* character, and a plain one
C30_Witness ==
    /\ calls = 1 /\ last.path = "complete"
    /\ \E k \in 1..Len(before) :
          /\ IsGraphNode(before[k]) /\ ~IsDef(before[k].w) /\ ~IsDef(before[k].h)
          /\ elements[k].w[1] > 100 /\ elements[k].h = Some(67)
    /\ \E k \in 1..Len(before) :
          /\ IsGraphNode(before[k]) /\ ~IsDef(before[k].w) /\ ~IsDef(before[k].h)
          /\ elements[k].h = Some(62)

----------------------------------------------------------------------------
(* Properties of resolveFrameOverlaps                                      *)

\* an absent coordinate or width reads as 0, as the code reads it
LeftOf(el) == OrElse(el.x, 0)

TopOf(el) == OrElse(el.y, 0)

RightOf(el) == OrElse(el.x, 0) + OrElse(el.w, 0)

\* the siblings of the call in ascending x, as they stood before it
SiblingOrder ==
    StableSort(TopLevelFrames(before),
               [k \in Range(TopLevelFrames(before)) |-> LeftOf(before[k])])

\* the top of the topmost sibling before the call
TopmostTop == SetMin({TopOf(before[k]) : k \in Range(TopLevelFrames(before))})

\* C19: after resolveFrameOverlaps a sibling whose top was less than 150
\* below the topmost sibling's has that top, and a sibling whose top was 150
\* or more below it keeps its y.
C19_TopAlignment ==
    (calls = 1 /\ last.path = "resolved") =>
        \A k \in Range(TopLevelFrames(before)) :
            IF TopOf(before[k]) - TopmostTop < ALIGN_THRESHOLD
            THEN TopOf(elements[k]) = TopmostTop
            ELSE elements[k].y = before[k].y

\* one sibling was raised to the top and one, exactly 150 below, was left
C19_Witness ==
    /\ calls = 1 /\ last.path = "resolved"
    /\ \E k \in Range(TopLevelFrames(before)) :
          TopOf(before[k]) > TopmostTop /\ TopOf(elements[k]) = TopmostTop
    /\ \E k \in Range(TopLevelFrames(before)) :
          TopOf(before[k]) - TopmostTop = ALIGN_THRESHOLD /\ elements[k].y = before[k].y

----------------------------------------------------------------------------
(* Properties of useExcalidrawStreaming                                    *)

\* C10: when the debounce timer fires, the elements committed to the canvas
\* are those of the most recent chunk that produced elements before the
\* firing, and nothing of the window stays behind to be committed later.
C10_CommitsLatest ==
    fired =>
        /\ latest # <<>>
        /\ canvas = <<ExcalidrawElements(latest[1].toolCallId, latest[1].json)>>
        /\ pendingElementsRef = <<>>

\* a firing that committed the result of a chunk that arrived after the one
\* that armed the timer
C10_Witness ==
    /\ fired /\ canvas # <<>>
    /\ lastProcessedJsonRef[canvas[1].toolCallId] # canvas[1].json

\* C11: the hook is a single-slot queue: at most one scheduled callback, the
\* handle in debounceTimeoutRef is that callback, at most one pending result,
\* and a step commits at most one result, and only when the timer fires.
C11_SingleSlot ==
    /\ Len(timers) <= 1
    /\ debounceTimeoutRef.armed <=> (timers # <<>>)
    /\ debounceTimeoutRef.armed => timers[1] = debounceTimeoutRef
    /\ Len(pendingElementsRef) <= 1
    /\ committed <= 1
    /\ (committed = 1) => fired

\* a firing that committed after two chunks of its window stored a result
C11_Witness == fired /\ committed = 1 /\ chunks >= 2 /\ timers = <<>>

\* C12: within one debounce window layout does not run for each of several
\* distinct chunks: once it ran for a chunk other than the one that set the
\* timer, it has still run only once since the timer was set.
C12_LayoutOncePerWindow ==
    (/\ debounceTimeoutRef.armed
     /\ latest # <<>>
     /\ <<latest[1].toolCallId, latest[1].json>>
            # <<debounceTimeoutRef.toolCallId, debounceTimeoutRef.elementsJson>>)
    => layoutRuns <= 1

\* C12 (amended): the commit, not layout, is coalesced: however many layouts
\* ran since the timer was set, exactly one callback is scheduled to commit,
\* none is scheduled when no layout ran, and the effect itself never commits.
C12_OneCommitPerWindow ==
    /\ (layoutRuns >= 1) => Len(timers) = 1
    /\ (layoutRuns = 0) => timers = <<>>
    /\ ~fired => committed = 0

\* layout ran for two chunks with different text in one window
C12_Witness ==
    /\ layoutRuns >= 2
    /\ Len(timers) = 1
    /\ <<latest[1].toolCallId, latest[1].json>>
            # <<timers[1].toolCallId, timers[1].elementsJson>>

----------------------------------------------------------------------------
(* Properties of parseCompactExcalidrawStreaming                           *)

\* the k-th object of the document is open at the end of the received text
CutInside(k) == ObjStart(doc, k) <= Len(received) /\ Len(received) < ObjEnd(doc, k)

IsPrefix(a, b) == Len(a) <= Len(b) /\ SubSeq(b, 1, Len(a)) = a

\* C13: for every text, garbage and texts cut in the middle of a key
\* included, the parser returns an element list and a completeness flag; a
\* text in which no object has closed yields zero elements.
C13_ParserTotal ==
    /\ parsed.isComplete \in BOOLEAN
    /\ DOMAIN parsed.elements = 1..Len(parsed.elements)
    /\ (\A i \in 1..Len(received) : received[i] # "}") => parsed.elements = <<>>

\* the text [{"x cut in the middle of a key, parsed to nothing
C13_Witness ==
    /\ received = <<"[", "{", "q", "x">>
    /\ parsed = [elements |-> <<>>, isComplete |-> FALSE]

\* C14: when a text grows by appended characters, the elements parsed from
\* the shorter text are a prefix of those parsed from the longer one.
C14_ParserMonotone == IsPrefix(parsedBefore.elements, parsed.elements)

\* a growth that added an element after others
C14_Witness ==
    /\ Len(parsedBefore.elements) >= 1
    /\ Len(parsed.elements) > Len(parsedBefore.elements)
    /\ parsed.elements[Len(parsed.elements)] # parsed.elements[1]

\* C15: a text that ends inside an object of a well-formed array parses to
\* exactly the objects closed before the cut, in order, and is not complete.
C15_Truncated ==
    doc.wf =>
        \A k \in 1..Len(doc.objs) :
            CutInside(k) =>
                /\ parsed.elements = SubSeq(doc.objs, 1, k - 1)
                /\ ~parsed.isComplete

\* a cut inside the string value of the second object, after a first object
\* whose string value holds a brace
C15_Witness ==
    /\ doc.wf /\ Len(doc.objs) >= 2
    /\ doc.objs[1] = <<"q", "}", "q">>
    /\ doc.objs[2] = <<"q", "x", "q">>
    /\ Len(received) = ObjStart(doc, 2) + 2
    /\ parsed.elements = <<doc.objs[1]>>

----------------------------------------------------------------------------
(* Properties of BindingService                                            *)

\* the stored binding with this id, or <<>>
Stored(s, bindingId) == s.bindings[bindingId]

\* the binding deleteBinding has just removed
Deleted == lastOp.was.bindings[lastOp.id][1]

\* C22: after deleteBinding(id) of a stored binding no trace of it remains:
\* it is absent from getAllBindings and getActiveBindings, getBindingsByBlockId
\* of its block does not return it, getBindingByElementId and isElementDeleted
\* for its element no longer reflect it, and every lookup of another stored
\* binding that succeeded before the deletion still succeeds.
C22_ZeroGhost ==
    lastOp.op = "deleteBinding" =>
        /\ \A b \in getAllBindings(bindingService) : b.id # lastOp.id
        /\ \A b \in getActiveBindings(bindingService) : b.id # lastOp.id
        /\ \A b \in getBindingsByBlockId(bindingService, Deleted.blockId) :
               b.id # lastOp.id
        /\ \A b \in {getBindingByElementId(bindingService, Deleted.elementId)} :
               b # <<>> => b[1].id # lastOp.id
        /\ isElementDeleted(bindingService, Deleted.elementId) =>
               \E b \in getAllBindings(bindingService) :
                   b.elementId = Deleted.elementId /\ b.isElementDeleted
        /\ \A o \in BindingIds \ {lastOp.id} :
               Stored(lastOp.was, o) # <<>> =>
                   /\ Stored(bindingService, o) = Stored(lastOp.was, o)
                   /\ getBindingByElementId(lastOp.was, Stored(lastOp.was, o)[1].elementId)
                          = Stored(lastOp.was, o)
                      => getBindingByElementId(bindingService, Stored(lastOp.was, o)[1].elementId)
                          = Stored(lastOp.was, o)
                   /\ Stored(lastOp.was, o)[1]
                          \in getBindingsByBlockId(lastOp.was, Stored(lastOp.was, o)[1].blockId)
                      => Stored(lastOp.was, o)[1]
                          \in getBindingsByBlockId(bindingService, Stored(lastOp.was, o)[1].blockId)

\* C27: getBindingByElementId(e) returns a binding exactly when some stored
\* binding has elementId e, and the binding it returns has elementId e.
C27_ElementIndex ==
    \A e \in ElementIds :
        /\ getBindingByElementId(bindingService, e) # <<>>
               <=> \E b \in getAllBindings(bindingService) : b.elementId = e
        /\ getBindingByElementId(bindingService, e) # <<>>
               => getBindingByElementId(bindingService, e)[1].elementId = e

\* C28: isElementDeleted(e) is true exactly when a stored binding with
\* elementId e has isElementDeleted set, and getActiveBindings returns exactly
\* the stored bindings whose element is not reported deleted.
C28_SoftDelete ==
    /\ \A e \in ElementIds :
           isElementDeleted(bindingService, e)
               <=> \E b \in getAllBindings(bindingService) :
                       b.elementId = e /\ b.isElementDeleted
    /\ getActiveBindings(bindingService)
           = {b \in getAllBindings(bindingService) :
                  ~isElementDeleted(bindingService, b.elementId)}

----------------------------------------------------------------------------
(* Properties of loadDocument                                              *)

\* the step just taken called setDocument with a copy from this place
Replaced(from) ==
    /\ page.step = from
    /\ page.displayed # <<>>
    /\ page.displayed[1].from = from
    /\ page.displayed # page.shown

\* a copy this load has put on display
OfThisLoad(d) == d # <<>> /\ d[1].from \in {"store", "cache", "server"}

\* C23: the cached copy replaces the displayed document only when nothing is
\* displayed or the cached version is strictly newer than the displayed one,
\* and no step of one load lowers the version of the document it displays.
C23_CacheNeverOlder ==
    /\ Replaced("cache") =>
           page.shown = <<>> \/ page.displayed[1].version > page.shown[1].version
    /\ (OfThisLoad(page.shown) /\ page.step \in {"store", "cache", "server"}) =>
           /\ page.displayed # <<>>
           /\ page.displayed[1].version >= page.shown[1].version

----------------------------------------------------------------------------
(* Properties of the streaming hook: what is recorded, what is shown       *)

\* the canvas shows the elements of the last chunk that produced any
ShowsLatest ==
    /\ latest # <<>>
    /\ canvas = <<ExcalidrawElements(latest[1].toolCallId, latest[1].json)>>

\* C24: after every debounced commit the JSON recorded as last processed,
\* under the tool call of the committed elements, is the JSON those elements
\* were derived from.
C24_RecordsCommitted ==
    (fired /\ committed = 1) =>
        lastProcessedJsonRef[canvas[1].toolCallId] = canvas[1].json

\* C25: if every scheduled timer callback eventually runs, then after a chunk
\* that yields elements has been processed the canvas eventually shows the
\* elements of that chunk or of a later one, and from some point on it shows
\* the elements of the last processed chunk.
C25_EventuallyShown ==
    /\ (latest # <<>>) ~> ShowsLatest
    /\ <>[](latest # <<>> => ShowsLatest)

C25_Witness ==
    /\ ShowsLatest
    /\ fired
    /\ committed = 1
    /\ chunks >= 3
    /\ layoutRuns = 0
    /\ pendingElementsRef = <<>>
    /\ lastProcessedJsonRef[latest[1].toolCallId] # latest[1].json

----------------------------------------------------------------------------
(* The frame effect of layoutWithDagre                                     *)

\* the fields no pass is said to write
SameButGeometry(a, b) ==
    /\ a.i = b.i /\ a.t = b.t /\ a.l = b.l
    /\ a.ch = b.ch /\ a.si = b.si /\ a.ei = b.ei

SameGeometry(a, b) == a.x = b.x /\ a.y = b.y /\ a.w = b.w /\ a.h = b.h

\* C26: the returned list is the input list, same elements, same order, same
\* length; only x, y, w, h are written; and a connector receives no geometry
\* from any pass.
C26_FrameEffect ==
    Called =>
        /\ Len(elements) = Len(before)
        /\ \A k \in 1..Len(elements) :
               /\ SameButGeometry(elements[k], before[k])
               /\ IsArrow(before[k]) => SameGeometry(elements[k], before[k])

----------------------------------------------------------------------------
(* Properties of BindingCache                                              *)

\* C29: a get called once a clear has resolved, with no set called since that
\* clear was called, returns null, whatever gets were in flight at the clear.
C29_ClearedStaysEmpty ==
    (bindingCache.lastGet.done /\ bindingCache.lastGet.afterClear /\ bindingCache.cleared)
        => bindingCache.lastGet.result = <<>>

====
